---- MODULE Spec2Model ----
(***************************************************************************)
(* Model of etcd3/aio_client.py: the bracket-counting tokenizer            *)
(* (ResponseIter), the stream decoder (ModelizedStreamResponse) and the    *)
(* RPC call orchestrator (AioClient.call_rpc, AioClient._raise_for_status).*)
(*                                                                         *)
(* Bytes are one-character strings.  A JSON value (what json.loads         *)
(* returns) is a record [t, n, s, m]: t is the Python type ("num", "str",  *)
(* "null" for None, "obj" for dict), n the int, s the characters of the    *)
(* str, m the items of the dict in insertion order.                        *)
(***************************************************************************)
EXTENDS Integers, Sequences, FiniteSets, TLC

----------------------------------------------------------------------------
(* Bytes and JSON values *)

LBrace == "{"
RBrace == "}"
Quote == "\""
Colon == ":"
Comma == ","
Space == " "

Digits == <<"0", "1", "2", "3", "4", "5", "6", "7", "8", "9">>

IsDigit(c) == \E d \in 1..10 : Digits[d] = c

DigitVal(c) == (CHOOSE d \in 1..10 : Digits[d] = c) - 1

JNull == [t |-> "null", n |-> 0, s |-> <<>>, m |-> <<>>]

JNum(k) == [t |-> "num", n |-> k, s |-> <<>>, m |-> <<>>]

JStr(str) == [t |-> "str", n |-> 0, s |-> str, m |-> <<>>]

JObj(items) == [t |-> "obj", n |-> 0, s |-> <<>>, m |-> items]

Item(key, val) == [k |-> key, v |-> val]

\* dict[key] = val: a key already present keeps its place and takes the new value
Put(items, key, val) ==
    IF \E i \in 1..Len(items) : items[i].k = key
    THEN [i \in 1..Len(items) |-> IF items[i].k = key THEN Item(key, val) ELSE items[i]]
    ELSE Append(items, Item(key, val))

\* key in d
HasKey(d, key) == \E i \in 1..Len(d.m) : d.m[i].k = key

\* d.get(key): the value, None when the key is absent
Get(d, key) ==
    IF HasKey(d, key)
    THEN d.m[CHOOSE i \in 1..Len(d.m) : d.m[i].k = key].v
    ELSE JNull

\* bool(v) of a Python value
Truthy(v) ==
    CASE v.t = "null" -> FALSE
      [] v.t = "num" -> v.n # 0
      [] v.t = "str" -> v.s # <<>>
      [] OTHER -> v.m # <<>>

----------------------------------------------------------------------------
(* json.loads on a byte sequence already decoded as text *)

Fail == [ok |-> FALSE, v |-> JNull, nx |-> 0]

Ok(val, next) == [ok |-> TRUE, v |-> val, nx |-> next]

RECURSIVE SkipWs(_, _)
SkipWs(s, i) == IF i <= Len(s) /\ s[i] = Space THEN SkipWs(s, i + 1) ELSE i

\* index of the first Quote at or after i, 0 when there is none
RECURSIVE ScanQuote(_, _)
ScanQuote(s, i) ==
    IF i > Len(s) THEN 0
    ELSE IF s[i] = Quote THEN i
    ELSE ScanQuote(s, i + 1)

\* s[i] is the opening quote
ParseString(s, i) ==
    LET j == ScanQuote(s, i + 1)
    IN  IF j = 0 THEN Fail ELSE Ok(JStr(SubSeq(s, i + 1, j - 1)), j + 1)

\* index of the last digit of the run of digits starting at i
RECURSIVE DigitsEnd(_, _)
DigitsEnd(s, i) ==
    IF i + 1 <= Len(s) /\ IsDigit(s[i + 1]) THEN DigitsEnd(s, i + 1) ELSE i

RECURSIVE NumVal(_, _, _)
NumVal(s, i, e) == IF e < i THEN 0 ELSE 10 * NumVal(s, i, e - 1) + DigitVal(s[e])

\* s[i] is a digit; a leading zero is a number on its own
ParseNumber(s, i) ==
    LET e == IF s[i] = "0" THEN i ELSE DigitsEnd(s, i)
    IN  Ok(JNum(NumVal(s, i, e)), e + 1)

ParseNull(s, i) ==
    IF i + 3 <= Len(s) /\ SubSeq(s, i, i + 3) = <<"n", "u", "l", "l">>
    THEN Ok(JNull, i + 4)
    ELSE Fail

RECURSIVE ParseValue(_, _)
RECURSIVE ParseMembers(_, _, _)

\* i is the index of a key; acc holds the items read so far
ParseMembers(s, i, acc) ==
    IF i > Len(s) \/ s[i] # Quote THEN Fail
    ELSE LET key == ParseString(s, i)
         IN  IF ~key.ok THEN Fail
             ELSE LET c == SkipWs(s, key.nx)
                  IN  IF c > Len(s) \/ s[c] # Colon THEN Fail
                      ELSE LET val == ParseValue(s, SkipWs(s, c + 1))
                           IN  IF ~val.ok THEN Fail
                               ELSE LET e == SkipWs(s, val.nx)
                                        items == Put(acc, key.v.s, val.v)
                                    IN  IF e > Len(s) THEN Fail
                                        ELSE IF s[e] = RBrace THEN Ok(JObj(items), e + 1)
                                        ELSE IF s[e] = Comma
                                             THEN ParseMembers(s, SkipWs(s, e + 1), items)
                                        ELSE Fail

\* s[i] is the opening brace
ParseObject(s, i) ==
    LET j == SkipWs(s, i + 1)
    IN  IF j > Len(s) THEN Fail
        ELSE IF s[j] = RBrace THEN Ok(JObj(<<>>), j + 1)
        ELSE ParseMembers(s, j, <<>>)

ParseValue(s, i) ==
    IF i > Len(s) THEN Fail
    ELSE IF s[i] = LBrace THEN ParseObject(s, i)
    ELSE IF s[i] = Quote THEN ParseString(s, i)
    ELSE IF IsDigit(s[i]) THEN ParseNumber(s, i)
    ELSE IF s[i] = "n" THEN ParseNull(s, i)
    ELSE Fail

\* json.loads(s): one value, white space around it, nothing else
Loads(s) ==
    LET r == ParseValue(s, SkipWs(s, 1))
    IN  IF r.ok /\ SkipWs(s, r.nx) = Len(s) + 1 THEN r ELSE Fail

----------------------------------------------------------------------------
(* The gateway's side: documents and their compact wire form.  These build *)
(* the response bodies the client is run on.                               *)

K_result == <<"r", "e", "s", "u", "l", "t">>
K_error == <<"e", "r", "r", "o", "r">>
K_message == <<"m", "e", "s", "s", "a", "g", "e">>
K_code == <<"c", "o", "d", "e">>
K_http_code == <<"h", "t", "t", "p", "_", "c", "o", "d", "e">>
K_grpc_code == <<"g", "r", "p", "c", "_", "c", "o", "d", "e">>
K_http_status == <<"h", "t", "t", "p", "_", "s", "t", "a", "t", "u", "s">>

RECURSIVE NumBytes(_)
NumBytes(k) == IF k < 10 THEN <<Digits[k + 1]>> ELSE NumBytes(k \div 10) \o <<Digits[(k % 10) + 1]>>

RECURSIVE Dump(_)
RECURSIVE DumpItems(_, _)

DumpItems(items, i) ==
    IF i > Len(items) THEN <<>>
    ELSE (IF i > 1 THEN <<Comma>> ELSE <<>>)
         \o <<Quote>> \o items[i].k \o <<Quote, Colon>> \o Dump(items[i].v)
         \o DumpItems(items, i + 1)

Dump(v) ==
    CASE v.t = "null" -> <<"n", "u", "l", "l">>
      [] v.t = "num" -> NumBytes(v.n)
      [] v.t = "str" -> <<Quote>> \o v.s \o <<Quote>>
      [] OTHER -> <<LBrace>> \o DumpItems(v.m, 1) \o <<RBrace>>

\* {"error": {"grpc_code": c, "http_code": h, "message": m}}
GatewayError(c, h, m) ==
    JObj(<<Item(K_error, JObj(<<Item(K_grpc_code, JNum(c)),
                                Item(K_http_code, JNum(h)),
                                Item(K_message, JStr(m))>>))>>)

\* {"error": {"grpc_code": c, "http_code": h, "message": m, "http_status": st}}
GatewayErrorFull(c, h, m, st) ==
    JObj(<<Item(K_error, JObj(<<Item(K_grpc_code, JNum(c)),
                                Item(K_http_code, JNum(h)),
                                Item(K_message, JStr(m)),
                                Item(K_http_status, JStr(st))>>))>>)

\* {"error": v}
ErrorOnly(v) == JObj(<<Item(K_error, v)>>)

\* {"result": p}
Enveloped(p) == JObj(<<Item(K_result, p)>>)

----------------------------------------------------------------------------
(* Response bodies the model is run on *)

\* documents concatenated into one body
MaxDocs == 2
\* length of the bodies made of arbitrary bytes
MaxRaw == 3
\* calls of __anext__ begun after the first that ended the stream
MaxExtra == 2
\* explicit calls of close
MaxClose == 2

\* a byte that is not valid UTF-8
BadByte == "0xFF"

X(k) == JObj(<<Item(<<"x">>, JNum(k))>>)

\* {"a": "}"} and {"a": "{"}: well-formed JSON with a brace inside a string literal
BraceInString(c) == JObj(<<Item(<<"a">>, JStr(<<c>>))>>)

\* documents that are concatenated into streams
DocPool ==
    { X(1), Enveloped(X(1)), Enveloped(X(2)), JObj(<<>>),
      GatewayError(14, 503, <<"t", "c">>), BraceInString(RBrace) }

\* documents that are streamed alone
SingleDocs == { X(2), BraceInString(LBrace) }

\* documents with an error member, streamed alone and whole
ErrorDocs ==
    { GatewayErrorFull(14, 503, <<"t", "c">>, <<"S", "U">>),
      ErrorOnly(JObj(<<>>)), ErrorOnly(JNull), ErrorOnly(JNum(0)), ErrorOnly(JStr(<<>>)),
      ErrorOnly(JStr(<<"t", "c">>)) }

RECURSIVE DumpAll(_)
DumpAll(docs) == IF docs = <<>> THEN <<>> ELSE Dump(Head(docs)) \o DumpAll(Tail(docs))

DocSeqs == UNION { [1..n -> DocPool] : n \in 0..MaxDocs }

\* separator-free concatenations of documents
DocBodies == { DumpAll(docs) : docs \in DocSeqs } \cup { Dump(d) : d \in SingleDocs \cup ErrorDocs }

\* one document cut short
CutBodies ==
    UNION { { SubSeq(Dump(d), 1, k) : k \in 1..(Len(Dump(d)) - 1) } : d \in DocPool \cup SingleDocs }

RawBytes == { LBrace, RBrace, Space, "1", BadByte }

\* every byte sequence up to MaxRaw bytes
RawBodies == UNION { [1..n -> RawBytes] : n \in 0..MaxRaw }

Bodies == DocBodies \cup CutBodies \cup RawBodies

----------------------------------------------------------------------------
(* State *)

VARIABLES
    body,          \* the bytes of the response body (resp.content)
    pos,           \* how many of them have been read
    open,          \* the response holds its connection
    releases,      \* how many times the connection was released
    self,          \* ModelizedStreamResponse: method, decode
    buf,           \* ResponseIter.buf
    bracket_flag,  \* ResponseIter.bracket_flag
    active,        \* a call of __anext__ is suspended in resp_iter.next()
    log,           \* the outcome of every completed __anext__, in order
    scope,         \* the caller's async with block: "none", "in", "left"
    closeCalls,    \* calls of ModelizedStreamResponse.close
    client,        \* AioClient: headers, user_agent
    call,          \* the call of call_rpc: its arguments, the response, the outcome
    other          \* a second stream handle, of a separate call: its response and tokenizer

vars == <<body, pos, open, releases, self, buf, bracket_flag, active, log, scope, closeCalls,
          client, call, other>>

respVars == <<body, pos, open, releases>>

iterVars == <<self, buf, bracket_flag, active, log>>

rpcVars == <<client, call>>

\* a second handle on the response body b, as ModelizedStreamResponse.__init__
\* and ResponseIter.__init__ leave it
OtherHandle(b) ==
    [self |-> [method |-> "watch", decode |-> TRUE], body |-> b, pos |-> 0, buf |-> <<>>,
     bracket_flag |-> 0, active |-> FALSE, log |-> <<>>]

\* no second handle
NoOther == [self |-> [method |-> "", decode |-> FALSE], body |-> <<>>, pos |-> 0, buf |-> <<>>,
            bracket_flag |-> 0, active |-> FALSE, log |-> <<>>]

----------------------------------------------------------------------------
(* ResponseIter *)

\* resp.content.read(1): one byte, or nothing at the end of the body
Read1(b, p) == IF p < Len(b) THEN <<b[p + 1]>> ELSE <<>>

BracketUpdate(flag, c) ==
    IF c = LBrace THEN flag + 1
    ELSE IF c = RBrace THEN flag - 1
    ELSE flag

\* LoopTurn with the buffer kept when a frame is returned
LoopTurnKeepsBuf(b, flag, c) ==
    IF c = <<>>
    THEN IF b # <<>>
         THEN [kind |-> "StreamError", buf |-> b, flag |-> flag, frame |-> b]
         ELSE [kind |-> "Stop", buf |-> b, flag |-> flag, frame |-> <<>>]
    ELSE LET b2 == b \o c
             f2 == BracketUpdate(flag, c[1])
         IN  IF f2 = 0
             THEN [kind |-> "frame", buf |-> b2, flag |-> f2, frame |-> b2]
             ELSE IF f2 < 0
             THEN [kind |-> "StreamError", buf |-> b2, flag |-> f2, frame |-> b2]
             ELSE [kind |-> "continue", buf |-> b2, flag |-> f2, frame |-> <<>>]

\* LoopTurn with the pending buffer not looked at when the body is exhausted
LoopTurnStopsOnPending(b, flag, c) ==
    IF c = <<>>
    THEN [kind |-> "Stop", buf |-> b, flag |-> flag, frame |-> <<>>]
    ELSE LET b2 == b \o c
             f2 == BracketUpdate(flag, c[1])
         IN  IF f2 = 0
             THEN [kind |-> "frame", buf |-> <<>>, flag |-> f2, frame |-> b2]
             ELSE IF f2 < 0
             THEN [kind |-> "StreamError", buf |-> b2, flag |-> f2, frame |-> b2]
             ELSE [kind |-> "continue", buf |-> b2, flag |-> f2, frame |-> <<>>]

\* LoopTurn without the test for a negative depth
LoopTurnIgnoresNegative(b, flag, c) ==
    IF c = <<>>
    THEN IF b # <<>>
         THEN [kind |-> "StreamError", buf |-> b, flag |-> flag, frame |-> b]
         ELSE [kind |-> "Stop", buf |-> b, flag |-> flag, frame |-> <<>>]
    ELSE LET b2 == b \o c
             f2 == BracketUpdate(flag, c[1])
         IN  IF f2 = 0
             THEN [kind |-> "frame", buf |-> <<>>, flag |-> f2, frame |-> b2]
             ELSE [kind |-> "continue", buf |-> b2, flag |-> f2, frame |-> <<>>]

\* LoopTurn raising Etcd3StreamError at every exhausted read, pending bytes or not
LoopTurnRaisesAtEnd(b, flag, c) ==
    IF c = <<>>
    THEN [kind |-> "StreamError", buf |-> b, flag |-> flag, frame |-> b]
    ELSE LET b2 == b \o c
             f2 == BracketUpdate(flag, c[1])
         IN  IF f2 = 0
             THEN [kind |-> "frame", buf |-> <<>>, flag |-> f2, frame |-> b2]
             ELSE IF f2 < 0
             THEN [kind |-> "StreamError", buf |-> b2, flag |-> f2, frame |-> b2]
             ELSE [kind |-> "continue", buf |-> b2, flag |-> f2, frame |-> <<>>]

\* LoopTurn clearing the tokenizer when the depth goes negative
LoopTurnClearsOnError(b, flag, c) ==
    IF c = <<>>
    THEN IF b # <<>>
         THEN [kind |-> "StreamError", buf |-> b, flag |-> flag, frame |-> b]
         ELSE [kind |-> "Stop", buf |-> b, flag |-> flag, frame |-> <<>>]
    ELSE LET b2 == b \o c
             f2 == BracketUpdate(flag, c[1])
         IN  IF f2 = 0
             THEN [kind |-> "frame", buf |-> <<>>, flag |-> f2, frame |-> b2]
             ELSE IF f2 < 0
             THEN [kind |-> "StreamError", buf |-> <<>>, flag |-> 0, frame |-> b2]
             ELSE [kind |-> "continue", buf |-> b2, flag |-> f2, frame |-> <<>>]

\* one turn of the loop of next() on the bytes c just read
LoopTurn(b, flag, c) ==
    IF c = <<>>
    THEN IF b # <<>>
         THEN [kind |-> "StreamError", buf |-> b, flag |-> flag, frame |-> b]
         ELSE [kind |-> "Stop", buf |-> b, flag |-> flag, frame |-> <<>>]
    ELSE LET b2 == b \o c
             f2 == BracketUpdate(flag, c[1])
         IN  IF f2 = 0
             THEN [kind |-> "frame", buf |-> <<>>, flag |-> f2, frame |-> b2]
             ELSE IF f2 < 0
             THEN [kind |-> "StreamError", buf |-> b2, flag |-> f2, frame |-> b2]
             ELSE [kind |-> "continue", buf |-> b2, flag |-> f2, frame |-> <<>>]

----------------------------------------------------------------------------
(* ModelizedStreamResponse *)

NoRes == [method |-> "", data |-> JNull, decode |-> FALSE]

NoErr == [message |-> JNull, code |-> JNull, status |-> JNull]

\* BaseClient._modelizeResponseData: a function of the method and the payload
Modelize(method, data, decode) == [method |-> method, data |-> data, decode |-> decode]

\* Etcd3APIError(message, code=, status=)
ApiError(message, code, status) == [message |-> message, code |-> code, status |-> status]

\* str(data, encoding='utf-8')
Utf8Valid(s) == \A i \in 1..Len(s) : s[i] # BadByte

Outcome(out, res, err) == [out |-> out, res |-> res, err |-> err]

\* DecodeFrame with the document passed on whole, the result envelope not unwrapped
DecodeFrameNoUnwrap(h, s) ==
    IF ~Utf8Valid(s) \/ ~Loads(s).ok THEN Outcome("ValueError", NoRes, NoErr)
    ELSE LET data == Loads(s).v
         IN  IF data.t # "obj" THEN Outcome("AttributeError", NoRes, NoErr)
             ELSE IF Truthy(Get(data, K_error))
             THEN LET err == Get(data, K_error)
                  IN  IF err.t # "obj" THEN Outcome("AttributeError", NoRes, NoErr)
                      ELSE Outcome("ApiError", NoRes,
                                   ApiError(Get(err, K_message), Get(err, K_code),
                                            Get(err, K_http_code)))
             ELSE Outcome("Result", Modelize(h.method, data, h.decode), NoErr)

\* __anext__ once resp_iter.next() has returned the frame s
DecodeFrame(h, s) ==
    IF ~Utf8Valid(s) \/ ~Loads(s).ok THEN Outcome("ValueError", NoRes, NoErr)
    ELSE LET data == Loads(s).v
         IN  IF data.t # "obj" THEN Outcome("AttributeError", NoRes, NoErr)
             ELSE IF Truthy(Get(data, K_error))
             THEN LET err == Get(data, K_error)
                  IN  IF err.t # "obj" THEN Outcome("AttributeError", NoRes, NoErr)
                      ELSE Outcome("ApiError", NoRes,
                                   ApiError(Get(err, K_message), Get(err, K_code),
                                            Get(err, K_http_code)))
             ELSE LET payload == IF HasKey(data, K_result) THEN Get(data, K_result) ELSE data
                  IN  Outcome("Result", Modelize(h.method, payload, h.decode), NoErr)

\* what a completed __anext__ leaves in the log: the outcome, the position in
\* the body when it ended, whether its last read found the body exhausted, and
\* how many bytes were pending before that read
Entry(turn, h, p, c, b) ==
    LET o == IF turn.kind = "frame" THEN DecodeFrame(h, turn.frame)
             ELSE Outcome(turn.kind, NoRes, NoErr)
    IN  [tok |-> turn.kind, frame |-> turn.frame, out |-> o.out, res |-> o.res,
         err |-> o.err, at |-> p, eof |-> (c = <<>>), pend |-> Len(b)]

\* calls of next() that ended with StopAsyncIteration or Etcd3StreamError
Terminals(l) == Cardinality({ i \in 1..Len(l) : l[i].tok # "frame" })

----------------------------------------------------------------------------
(* AioClient *)

HeaderKeys == { "user_agent", "authorization" }

\* the dicts of headers over HeaderKeys whose values are all val
HeaderDicts(val) == UNION { [K -> {val}] : K \in SUBSET HeaderKeys }

Clients == { [headers |-> h, user_agent |-> "ua"] : h \in HeaderDicts("client") }

Statuses == { 200, 399, 400, 503 }

\* {"error": "tc", "code": 14}
FlatError == JObj(<<Item(K_error, JStr(<<"t", "c">>)), Item(K_code, JNum(14))>>)

RpcBodies ==
    { <<"e", "r", "r">>, Dump(JNum(1)), Dump(JStr(<<"s">>)), Dump(JObj(<<>>)),
      Dump(FlatError), Dump(GatewayError(14, 503, <<"t", "c">>)), Dump(X(1)),
      Dump(Enveloped(X(1))) \o Dump(Enveloped(X(2))) }

\* d.setdefault(k, v), as the dict it leaves
SetDefault(d, k, v) == IF k \in DOMAIN d THEN d ELSE d @@ (k :> v)

\* d.update(e), as the dict it leaves: the values of e replace those of d
Update(d, e) == e @@ d

\* kwargs['headers'] after lines 184-185, ch being the caller's headers ({} when absent)
SentHeaders(ch, cl) == Update(SetDefault(ch, "user_agent", cl.user_agent), cl.headers)

\* resp.content handed over as the error of an Etcd3APIError
RespContent == [t |-> "content", n |-> 0, s |-> <<>>, m |-> <<>>]

\* await resp.json(): None for a blank body, else json.loads of the body
RespJson(b) ==
    IF \A i \in 1..Len(b) : b[i] = Space THEN Ok(JNull, Len(b) + 1)
    ELSE IF ~Utf8Valid(b) THEN Fail
    ELSE Loads(b)

\* _raise_for_status: what it raises, if anything; json is what await resp.json()
\* gives for the body
RaiseForStatus(status, json) ==
    IF status < 400 THEN [out |-> "", err |-> NoErr]
    ELSE IF ~json.ok
    THEN [out |-> "ApiError", err |-> ApiError(RespContent, JNum(2), JNum(status))]
    ELSE IF json.v.t # "obj"
    THEN [out |-> "AttributeError", err |-> NoErr]
    ELSE [out |-> "ApiError",
          err |-> ApiError(Get(json.v, K_error), Get(json.v, K_code), JNum(status))]

NoHandle == [method |-> "", decode |-> FALSE]

NoCall ==
    [done |-> FALSE, method |-> "", stream |-> FALSE, raw |-> FALSE, encode |-> FALSE,
     headers |-> <<>>, status |-> 0, fails |-> FALSE,
     sent |-> [headers |-> <<>>, encoded |-> FALSE],
     out |-> "", err |-> NoErr, res |-> NoRes,
     jsonCalls |-> 0, closes |-> 0, readClosed |-> FALSE]

\* call_rpc from the response on (lines 189-197).  json: what await resp.json()
\* gives for the body; fails: building the stream handle raises an Etcd3Exception;
\* closedRead: what reading the closed response gives, "error" or "data"
Dispatch(method, stream, raw, status, json, fails, closedRead) ==
    LET st == RaiseForStatus(status, json)
        none == [out |-> "", err |-> NoErr, res |-> NoRes, jsonCalls |-> 0, closes |-> 0,
                 readClosed |-> FALSE]
    IN  IF st.out # ""
        THEN [none EXCEPT !.out = st.out, !.err = st.err, !.jsonCalls = 1]
        ELSE IF raw THEN [none EXCEPT !.out = "Response"]
        ELSE IF stream /\ ~fails THEN [none EXCEPT !.out = "StreamHandle"]
        ELSE LET caught == stream /\ fails
                 last == IF caught /\ closedRead = "error" THEN "TransportError"
                         ELSE IF ~json.ok THEN "ValueError"
                         ELSE "Model"
             IN  [none EXCEPT !.out = last,
                              !.res = IF last = "Model" THEN Modelize(method, json.v, TRUE)
                                      ELSE NoRes,
                              !.jsonCalls = 1,
                              !.closes = IF caught THEN 1 ELSE 0,
                              !.readClosed = caught]

InitRpc ==
    /\ client \in Clients
    /\ call = NoCall
    /\ body = <<>>
    /\ pos = 0
    /\ open = FALSE
    /\ releases = 0
    /\ self = NoHandle
    /\ buf = <<>>
    /\ bracket_flag = 0
    /\ active = FALSE
    /\ log = <<>>
    /\ scope = "none"
    /\ closeCalls = 0
    /\ other = NoOther

\* one run of call_rpc on the client cl: the arguments, the response the server
\* gives to the POST, and what the run leaves behind
CallRpcRun(cl, stream, raw, encode, ch, status, b, fails, closedRead) ==
    LET method == "watch"
        d == Dispatch(method, stream, raw, status, RespJson(b), fails, closedRead)
    IN  [client |-> cl,
         call |-> [done |-> TRUE, method |-> method, stream |-> stream, raw |-> raw,
                   encode |-> encode, headers |-> ch, status |-> status, fails |-> fails,
                   sent |-> [headers |-> SentHeaders(ch, cl), encoded |-> encode],
                   out |-> d.out, err |-> d.err, res |-> d.res,
                   jsonCalls |-> d.jsonCalls, closes |-> d.closes,
                   readClosed |-> d.readClosed],
         body |-> b,
         pos |-> IF d.jsonCalls > 0 /\ ~(d.readClosed /\ closedRead = "error")
                 THEN Len(b) ELSE 0,
         open |-> (d.closes = 0),
         releases |-> d.closes,
         self |-> IF d.out = "StreamHandle" THEN [method |-> method, decode |-> TRUE]
                  ELSE NoHandle]

\* the runs of call_rpc: every client, every choice of arguments and response
CallRpcRuns ==
    { CallRpcRun(cl, stream, raw, encode, ch, status, b, fails, closedRead) :
        cl \in Clients, stream \in BOOLEAN, raw \in BOOLEAN, encode \in BOOLEAN,
        ch \in HeaderDicts("caller"), status \in Statuses, b \in RpcBodies,
        fails \in BOOLEAN, closedRead \in { "error", "data" } }

\* building the stream handle can only fail where it is built, and a read of a
\* closed response only happens after that failure
Feasible(run) ==
    /\ run.call.fails => (run.call.stream /\ ~run.call.raw /\ run.call.status < 400)
    /\ run.call.out = "TransportError" => run.call.fails

\* call_rpc
CallRpc ==
    /\ ~call.done
    /\ \E run \in CallRpcRuns :
          /\ run.client = client
          /\ Feasible(run)
          /\ call' = run.call
          /\ body' = run.body
          /\ pos' = run.pos
          /\ open' = run.open
          /\ releases' = run.releases
          /\ self' = run.self
    /\ UNCHANGED <<buf, bracket_flag, active, log, scope, closeCalls, client, other>>

----------------------------------------------------------------------------
(* Iterating and closing a stream handle *)

Init ==
    /\ body \in Bodies
    /\ pos = 0
    /\ open = TRUE
    /\ releases = 0
    /\ self = [method |-> "watch", decode |-> TRUE]
    /\ buf = <<>>
    /\ bracket_flag = 0
    /\ active = FALSE
    /\ log = <<>>
    /\ scope = "none"
    /\ closeCalls = 0
    /\ client = [headers |-> <<>>, user_agent |-> "ua"]
    /\ call = NoCall
    /\ other = NoOther

\* __anext__: one turn of the loop of resp_iter.next(), up to its next await;
\* the turn that returns a frame runs the rest of __anext__ on it
Anext ==
    /\ self # NoHandle
    /\ open
    /\ active \/ Terminals(log) <= MaxExtra
    /\ LET c == Read1(body, pos)
           turn == LoopTurn(buf, bracket_flag, c)
       IN  /\ pos' = pos + Len(c)
           /\ buf' = turn.buf
           /\ bracket_flag' = turn.flag
           /\ active' = (turn.kind = "continue")
           /\ log' = IF turn.kind = "continue" THEN log
                     ELSE Append(log, Entry(turn, self, pos + Len(c), c, buf))
    /\ UNCHANGED <<body, open, releases, self, scope, closeCalls, rpcVars, other>>

\* self.resp.close(): the response gives its connection back if it still holds it
RespClose ==
    /\ open' = FALSE
    /\ releases' = IF open THEN releases + 1 ELSE releases

\* close without the call of self.resp.close()
CloseNoRelease ==
    /\ self # NoHandle
    /\ closeCalls < MaxClose
    /\ closeCalls' = closeCalls + 1
    /\ UNCHANGED <<respVars, iterVars, scope, rpcVars, other>>

\* ModelizedStreamResponse.close
Close ==
    /\ self # NoHandle
    /\ closeCalls < MaxClose
    /\ closeCalls' = closeCalls + 1
    /\ RespClose
    /\ UNCHANGED <<body, pos, iterVars, scope, rpcVars, other>>

\* async with handle: entered before the first read
AEnter ==
    /\ self # NoHandle
    /\ scope = "none"
    /\ log = <<>> /\ ~active /\ closeCalls = 0
    /\ scope' = "in"
    /\ UNCHANGED <<respVars, iterVars, closeCalls, rpcVars, other>>

\* __aexit__ without the call of self.close()
AExitNoClose ==
    /\ scope = "in"
    /\ scope' = "left"
    /\ UNCHANGED <<respVars, iterVars, closeCalls, rpcVars, other>>

\* leaving the async with block, normally or by an exception
AExit ==
    /\ scope = "in"
    /\ scope' = "left"
    /\ closeCalls' = closeCalls + 1
    /\ RespClose
    /\ UNCHANGED <<body, pos, iterVars, rpcVars, other>>

\* bodies of the two responses that are read together
PairBodies ==
    { <<>>, Dump(X(1)), Dump(X(1)) \o Dump(X(2)), Dump(JObj(<<>>)) \o Dump(X(2)),
      <<RBrace, LBrace>>, <<LBrace, "1">>, <<Space, LBrace, RBrace>> }

InitPair ==
    /\ body \in PairBodies
    /\ pos = 0
    /\ open = TRUE
    /\ releases = 0
    /\ self = [method |-> "watch", decode |-> TRUE]
    /\ buf = <<>>
    /\ bracket_flag = 0
    /\ active = FALSE
    /\ log = <<>>
    /\ scope = "none"
    /\ closeCalls = 0
    /\ client = [headers |-> <<>>, user_agent |-> "ua"]
    /\ call = NoCall
    /\ \E b \in PairBodies : other = OtherHandle(b)

\* __anext__ of the second handle with the tokenizer state kept in one place
\* for all handles: the turn works on the buffer and depth of the first handle
AnextOtherSharedBuf ==
    /\ other # NoOther
    /\ other.active \/ Terminals(other.log) <= MaxExtra
    /\ LET c == Read1(other.body, other.pos)
           turn == LoopTurn(buf, bracket_flag, c)
       IN  /\ buf' = turn.buf
           /\ bracket_flag' = turn.flag
           /\ other' = [other EXCEPT
                  !.pos = other.pos + Len(c),
                  !.active = (turn.kind = "continue"),
                  !.log = IF turn.kind = "continue" THEN other.log
                          ELSE Append(other.log,
                                      Entry(turn, other.self, other.pos + Len(c), c, buf))]
    /\ UNCHANGED <<respVars, self, active, log, scope, closeCalls, rpcVars>>

\* __anext__ of the second handle: one turn of the loop of its own
\* resp_iter.next(), on its own response, buffer and depth
AnextOther ==
    /\ other # NoOther
    /\ other.active \/ Terminals(other.log) <= MaxExtra
    /\ LET c == Read1(other.body, other.pos)
           turn == LoopTurn(other.buf, other.bracket_flag, c)
       IN  other' = [other EXCEPT
               !.pos = other.pos + Len(c),
               !.buf = turn.buf,
               !.bracket_flag = turn.flag,
               !.active = (turn.kind = "continue"),
               !.log = IF turn.kind = "continue" THEN other.log
                       ELSE Append(other.log,
                                   Entry(turn, other.self, other.pos + Len(c), c, other.buf))]
    /\ UNCHANGED <<respVars, iterVars, scope, closeCalls, rpcVars>>

Next == Anext \/ Close \/ AEnter \/ AExit

Spec == Init /\ [][Next]_vars

NextRpc == CallRpc \/ Anext \/ Close \/ AEnter \/ AExit

SpecRpc == InitRpc /\ [][NextRpc]_vars

\* two handles of two separate calls, each iterated by its own task
NextPair == Anext \/ AnextOther

SpecPair == InitPair /\ [][NextPair]_vars

----------------------------------------------------------------------------
(* Properties of the tokenizer *)

FrameFail == [ok |-> FALSE, parts |-> <<>>]

\* the body from index i on as a separator-free concatenation of JSON objects:
\* the bytes of each object, as a JSON parser delimits them
RECURSIVE JsonObjects(_, _)
JsonObjects(s, i) ==
    IF i > Len(s) THEN [ok |-> TRUE, parts |-> <<>>]
    ELSE IF s[i] # LBrace THEN FrameFail
    ELSE LET r == ParseObject(s, i)
         IN  IF ~r.ok THEN FrameFail
             ELSE LET rest == JsonObjects(s, r.nx)
                  IN  IF ~rest.ok THEN FrameFail
                      ELSE [ok |-> TRUE, parts |-> <<SubSeq(s, i, r.nx - 1)>> \o rest.parts]

WellFormed(s) == Utf8Valid(s) /\ JsonObjects(s, 1).ok

\* byte i lies inside a string literal: an odd number of quotes precede it
InString(s, i) == Cardinality({ j \in 1..(i - 1) : s[j] = Quote }) % 2 = 1

\* no brace byte lies inside a string literal
NoBraceInStrings(s) ==
    \A i \in 1..Len(s) : s[i] \in {LBrace, RBrace} => ~InString(s, i)

\* the calls so far returned the frames parts[1], parts[2], ... in order, each
\* parseable as a JSON object, and every call after the last frame ended the stream
YieldsExactly(parts) ==
    \A i \in 1..Len(log) :
        IF i <= Len(parts)
        THEN /\ log[i].tok = "frame"
             /\ log[i].frame = parts[i]
             /\ Loads(log[i].frame).ok
             /\ Loads(log[i].frame).v.t = "obj"
        ELSE log[i].tok = "Stop"

\* C1 as stated: for every body that is the separator-free concatenation of N
\* well-formed JSON objects, the calls of next() return exactly the N objects in
\* order, and then signal the end of the stream.
C1_AnyWellFormed == WellFormed(body) => YieldsExactly(JsonObjects(body, 1).parts)

\* C1 amended: the same, for bodies whose string literals hold no brace byte.
C1_BraceFreeStrings ==
    (WellFormed(body) /\ NoBraceInStrings(body))
        => YieldsExactly(JsonObjects(body, 1).parts)

\* two objects, both returned, then the end of the stream
C1_Witness ==
    /\ WellFormed(body) /\ NoBraceInStrings(body)
    /\ Len(JsonObjects(body, 1).parts) = 2
    /\ Len(log) = 3
    /\ log[1].tok = "frame" /\ log[2].tok = "frame" /\ log[3].tok = "Stop"
    /\ log[1].frame # log[2].frame

\* opening braces minus closing braces
Depth(s) ==
    Cardinality({ i \in 1..Len(s) : s[i] = LBrace }) - Cardinality({ i \in 1..Len(s) : s[i] = RBrace })

\* the call that ended the iteration: the first one that returned no frame (0: none yet)
FirstTerminal(l) ==
    IF \E i \in 1..Len(l) : l[i].tok # "frame"
    THEN CHOOSE i \in 1..Len(l) : l[i].tok # "frame" /\ \A j \in 1..(i - 1) : l[j].tok = "frame"
    ELSE 0

StreamErrorsUpTo(l, i) == Cardinality({ j \in 1..i : l[j].tok = "StreamError" })

C3_UnmatchedCloseRaises ==
    [][ (pos' = pos + 1 /\ body[pos'] = RBrace /\ bracket_flag = 0)
            => /\ ~active'
               /\ Len(log') = Len(log) + 1
               /\ log'[Len(log')].tok = "StreamError"
               /\ log'[Len(log')].at = pos' ]_vars

\* the body begins with a closing brace and the first call has raised on it
C3_Witness ==
    /\ Len(body) > 1 /\ body[1] = RBrace
    /\ Len(log) = 1
    /\ log[1].tok = "StreamError" /\ log[1].frame = <<RBrace>> /\ log[1].at = 1
    /\ pos = 1

----------------------------------------------------------------------------
(* Properties of the stream decoder *)

\* {"result": p} and nothing else
IsEnvelope(doc) == Len(doc.m) = 1 /\ doc.m[1].k = K_result

\* a payload sent bare: no result key, no error key
IsBare(doc) == ~HasKey(doc, K_result) /\ ~HasKey(doc, K_error)

Payload(doc) == IF IsEnvelope(doc) THEN doc.m[1].v ELSE doc

\* the body is a separator-free concatenation of result envelopes and bare payloads
ResultFrames(s) ==
    /\ WellFormed(s)
    /\ \A i \in 1..Len(JsonObjects(s, 1).parts) :
           LET doc == Loads(JsonObjects(s, 1).parts[i]).v
           IN  IsEnvelope(doc) \/ IsBare(doc)

\* the calls so far returned the modeled payloads of the frames, in order, and
\* every call after the last frame ended the iteration without an error
YieldsPayloads(parts) ==
    \A i \in 1..Len(log) :
        IF i <= Len(parts)
        THEN /\ log[i].out = "Result"
             /\ log[i].res = Modelize(self.method, Payload(Loads(parts[i]).v), self.decode)
        ELSE log[i].out = "Stop"

----------------------------------------------------------------------------
(* Properties of call_rpc *)

\* the body is {"error": {"grpc_code": c, "http_code": h, "message": m}}
IsGatewayErrorBody(b) ==
    /\ Loads(b).ok
    /\ Loads(b).v.t = "obj"
    /\ LET e == Get(Loads(b).v, K_error)
       IN  /\ e.t = "obj"
           /\ HasKey(e, K_grpc_code) /\ HasKey(e, K_http_code) /\ HasKey(e, K_message)

\* C5: for a status >= 400 and a body of the gateway error shape, call_rpc raises
\* ApiError with the grpc_code as code, the response status as status and the
\* error's message as message.
C5_GatewayErrorCarried ==
    (call.done /\ call.status >= 400 /\ IsGatewayErrorBody(body))
        => LET e == Get(Loads(body).v, K_error)
           IN  /\ call.out = "ApiError"
               /\ call.err.code = Get(e, K_grpc_code)
               /\ call.err.status = JNum(call.status)
               /\ call.err.message = Get(e, K_message)

\* C6: for every status >= 400, whatever the body and the flags, call_rpc ends by
\* raising ApiError, with the generic code 2 when the body is not JSON.
C6_AlwaysApiError ==
    (call.done /\ call.status >= 400)
        => /\ call.out = "ApiError"
           /\ ~RespJson(body).ok => call.err.code = JNum(2)

\* C7: every header the caller supplies is sent with the caller's value.
C7_CallerHeadersWin ==
    call.done => \A k \in DOMAIN call.headers :
                     /\ k \in DOMAIN call.sent.headers
                     /\ call.sent.headers[k] = call.headers[k]

\* C8: when building the stream handle raises an Etcd3Exception, the response is
\* closed once and that exception leaves call_rpc: nothing is returned and the
\* closed response is not read.
C8_ConstructFailurePropagates ==
    (call.done /\ call.stream /\ ~call.raw /\ call.status < 400 /\ call.fails)
        => /\ call.closes = 1
           /\ call.out = "Etcd3Exception"
           /\ call.jsonCalls = 0
           /\ ~call.readClosed

----------------------------------------------------------------------------
(* Properties of closing a stream handle *)

\* C9: once close has been called, or the async with block has been left, at
\* whatever point of the iteration, the response is released.
C9_ClosedIsReleased ==
    (closeCalls > 0 \/ scope = "left") => (~open /\ releases >= 1)

\* the async with block is left in the middle of a frame
C9_Witness ==
    /\ scope = "left"
    /\ active /\ buf # <<>> /\ pos < Len(body)
    /\ ~open

----------------------------------------------------------------------------
(* Properties of error frames in a stream *)

\* the parsed document of a frame that is valid UTF-8 JSON
Doc(s) == Loads(s).v

\* the frame is a JSON document
IsJson(s) == Utf8Valid(s) /\ Loads(s).ok

\* the frame is {"error": {"grpc_code": c, "http_code": h, "message": m, "http_status": st}}
IsGatewayErrorFrame(s) ==
    /\ IsJson(s)
    /\ Doc(s).t = "obj"
    /\ Len(Doc(s).m) = 1
    /\ HasKey(Doc(s), K_error)
    /\ LET e == Get(Doc(s), K_error)
       IN  /\ e.t = "obj"
           /\ \A k \in { K_grpc_code, K_http_code, K_message, K_http_status } : HasKey(e, k)

\* C11: a streamed gateway error frame makes __anext__ raise an ApiError that
\* carries the frame's message, its grpc_code as the protocol error code and its
\* http_code as the HTTP status, and the frame is not handed to the modeler.
C11_GatewayFrameCarried ==
    \A i \in 1..Len(log) :
        (log[i].tok = "frame" /\ IsGatewayErrorFrame(log[i].frame))
            => LET e == Get(Doc(log[i].frame), K_error)
               IN  /\ log[i].out = "ApiError"
                   /\ log[i].res = NoRes
                   /\ log[i].err = ApiError(Get(e, K_message), Get(e, K_grpc_code),
                                            Get(e, K_http_code))

\* C12: once a call of next() has raised Etcd3StreamError, no later call on
\* the same tokenizer returns a frame.
C12_StreamErrorIsFatal ==
    \A i \in 1..Len(log) : \A j \in (i + 1)..Len(log) :
        log[i].tok = "StreamError" => log[j].tok # "frame"

\* the frame is one balanced object: it opens with a brace, closes with the
\* matching brace, and no proper prefix of it is back at depth zero or below
OneBalancedObject(s) ==
    /\ s # <<>>
    /\ s[1] = LBrace
    /\ s[Len(s)] = RBrace
    /\ Depth(s) = 0
    /\ \A k \in 1..(Len(s) - 1) : Depth(SubSeq(s, 1, k)) > 0

\* C13: every frame next() returns is exactly one balanced object, whatever
\* bytes the body holds before, between or after its objects.
C13_FramesAreObjects ==
    \A i \in 1..Len(log) : log[i].tok = "frame" => OneBalancedObject(log[i].frame)

\* C14: a brace-balanced frame that is not valid UTF-8 JSON makes __anext__
\* fail with Etcd3StreamError, and with nothing else.
C14_BadJsonIsStreamError ==
    \A i \in 1..Len(log) :
        (log[i].tok = "frame" /\ OneBalancedObject(log[i].frame) /\ ~IsJson(log[i].frame))
            => log[i].out = "StreamError"

\* C15: once __anext__ has raised an ApiError for an error frame, no later
\* call on the same handle returns a modeled result.
C15_ApiErrorEndsStream ==
    \A i \in 1..Len(log) : \A j \in (i + 1)..Len(log) :
        log[i].out = "ApiError" => log[j].out # "Result"

\* C16: a parsed document with an error key, whatever its value, makes
\* __anext__ raise an ApiError and never return a modeled result.
C16_ErrorKeyAlwaysRaises ==
    \A i \in 1..Len(log) :
        (log[i].tok = "frame" /\ IsJson(log[i].frame) /\ Doc(log[i].frame).t = "obj"
            /\ HasKey(Doc(log[i].frame), K_error))
            => log[i].out = "ApiError"

----------------------------------------------------------------------------
(* Properties of the end of the body and of the bytes read *)

\* C17: a read that finds the body exhausted while no byte is pending ends
\* the call with StopAsyncIteration, never with Etcd3StreamError, and every
\* later call ends the same way without returning a frame.
C17_CleanEndIsStop ==
    \A i \in 1..Len(log) :
        (log[i].eof /\ log[i].pend = 0)
            => /\ log[i].tok = "Stop"
               /\ \A j \in i..Len(log) :
                      /\ log[j].tok = "Stop"
                      /\ log[j].eof /\ log[j].pend = 0
                      /\ log[j].at = log[i].at

\* the body ends right after a complete frame, and next() is called three more times
C17_Witness ==
    /\ Len(log) = 4
    /\ log[1].tok = "frame" /\ log[1].at = Len(body)
    /\ log[2].tok = "Stop" /\ log[3].tok = "Stop" /\ log[4].tok = "Stop"

\* the frames returned by the first i completed calls, concatenated
RECURSIVE FramesUpTo(_, _)
FramesUpTo(l, i) ==
    IF i = 0 THEN <<>>
    ELSE FramesUpTo(l, i - 1) \o (IF l[i].tok = "frame" THEN l[i].frame ELSE <<>>)

\* C20: the frames returned so far followed by the pending buffer are exactly
\* the bytes read so far, in order; right after a returned frame the buffer is
\* empty and the depth zero; and the last byte read by a call that returns a
\* frame is the last byte of that frame.
C20_BytesConserved ==
    /\ FramesUpTo(log, Len(log)) \o buf = SubSeq(body, 1, pos)
    /\ \A i \in 1..Len(log) :
           log[i].tok = "frame" => log[i].at = Len(FramesUpTo(log, i))
    /\ (log # <<>> /\ log[Len(log)].tok = "frame" /\ ~active)
           => (buf = <<>> /\ bracket_flag = 0)

\* a frame has been returned and the next object is half read
C20_Witness ==
    /\ Len(log) = 1
    /\ log[1].tok = "frame" /\ OneBalancedObject(log[1].frame)
    /\ active /\ buf # <<>> /\ bracket_flag > 0
    /\ pos < Len(body)

----------------------------------------------------------------------------
(* Properties of the raw and stream returns of call_rpc *)

\* C18: for a status below 400 with raw or stream set, call_rpc returns the
\* response (raw, which comes first) or the stream handle (stream) without
\* having read the body, closed the response or called the modeler; the bytes
\* of the body are read by the later calls of next() only.
C18_PassthroughUntouched ==
    (call.done /\ call.status < 400 /\ (call.raw \/ call.stream))
        => /\ call.out = IF call.raw THEN "Response" ELSE "StreamHandle"
           /\ call.jsonCalls = 0
           /\ call.closes = 0
           /\ call.res = NoRes
           /\ (log = <<>> /\ ~active) => pos = 0

----------------------------------------------------------------------------
(* Properties of two handles iterated together *)

\* what the calls of next() return and raise when the body b is iterated
\* alone from position p with the buffer bf and the depth fl, until n calls
\* have ended without a frame
RECURSIVE AloneFrom(_, _, _, _, _)
AloneFrom(b, p, bf, fl, n) ==
    LET c == Read1(b, p)
        turn == LoopTurn(bf, fl, c)
        left == IF turn.kind = "frame" THEN n ELSE n - 1
    IN  IF turn.kind = "continue" THEN AloneFrom(b, p + Len(c), turn.buf, turn.flag, n)
        ELSE <<[tok |-> turn.kind, frame |-> turn.frame]>>
             \o (IF left = 0 THEN <<>>
                 ELSE AloneFrom(b, p + Len(c), turn.buf, turn.flag, left))

Alone(b) == AloneFrom(b, 0, <<>>, 0, MaxExtra + 1)

\* the frames and signals of the log l are those of the first calls on b alone
AsAlone(l, b) ==
    /\ Len(l) <= Len(Alone(b))
    /\ \A i \in 1..Len(l) : l[i].tok = Alone(b)[i].tok /\ l[i].frame = Alone(b)[i].frame

\* C19: two handles of two separate calls, read byte by byte in any
\* interleaving, each yield the frames and the terminal signal they yield alone.
C19_HandlesIndependent ==
    /\ AsAlone(log, body)
    /\ AsAlone(other.log, other.body)
    /\ (~active /\ Terminals(log) = MaxExtra + 1) => Len(log) = Len(Alone(body))
    /\ (~other.active /\ Terminals(other.log) = MaxExtra + 1)
           => Len(other.log) = Len(Alone(other.body))

\* both handles have returned a frame and each is in the middle of its next
\* object, the two bodies being different
C19_Witness ==
    /\ body # other.body
    /\ Len(log) = 1 /\ log[1].tok = "frame"
    /\ Len(other.log) = 1 /\ other.log[1].tok = "frame"
    /\ active /\ buf # <<>>
    /\ other.active /\ other.buf # <<>>
    /\ buf # other.buf

====
